---------------------------- MODULE Spec2Model ----------------------------
(***************************************************************************)
(* A model of AS1_Main.py: the three career ODEs (dpay, dstatus,           *)
(* dresearch), their composition career_evolution, and the __main__        *)
(* script that integrates them with solve_ivp(method='RK45') and extracts  *)
(* the trajectories.                                                       *)
(*                                                                         *)
(* Numbers.  Python floats are modelled as decimal fixed-point numbers     *)
(* with six fractional digits (the integer 1500000 stands for 1.5).  Pay   *)
(* and its rate are kept in thousandths of a dollar, so that a product of  *)
(* a six-digit number with a Pay value is again a Pay value.  Every        *)
(* operation rounds to the grid, and a result outside the representable    *)
(* range, or a division by zero, is the non-finite value NaN, which        *)
(* propagates as inf/nan do in floating point.  All intermediate values    *)
(* stay inside 32-bit integers.                                            *)
(*                                                                         *)
(* Indices.  Python lists are 0-based and TLA+ sequences 1-based:          *)
(* z[0], z[1], z[2] of the source are z[1], z[2], z[3] here, and           *)
(* params[0..3] are params[1..4].                                          *)
(***************************************************************************)
EXTENDS Integers, Sequences, FiniteSets

VARIABLES
    inflation,   \* module global `inflation` (read by dpay on every call)
    pc,          \* position of __main__ / of the solver loop
    z0,          \* the list z0 of __main__
    t_end,       \* t[-1], the end of the time grid
    ceiling,     \* 0, or the pay ceiling of the pay-ceiling variant
    section,     \* which edition of __main__ runs (see Configs)
    queue,       \* the parameter sets still to be solved, in program order
    args,        \* the parameter set of the solve in progress
    solver,      \* the RK45 solver object of the solve in progress
    results,     \* extracted solutions: <<pay, status, research, status flag>>
    final_pays,  \* the list final_pays of the sensitivity analysis
    calls        \* log of derivative-function calls (function-level runs)

vars == <<inflation, pc, z0, t_end, ceiling, section, queue, args, solver,
          results, final_pays, calls>>

---------------------------------------------------------------------------
(* Fixed-point arithmetic *)

ONE == 1000 * 1000
LIM == 2000 * ONE
NaN == LIM + 1

Abs(x) == IF x < 0 THEN -x ELSE x
Fin(x) == x # NaN
Max2(a, b) == IF a >= b THEN a ELSE b
Min2(a, b) == IF a <= b THEN a ELSE b

Neg(x) == IF Fin(x) THEN -x ELSE NaN

Add(x, y) ==
    IF ~Fin(x) \/ ~Fin(y) THEN NaN
    ELSE IF x > 0 /\ y > LIM - x THEN NaN
    ELSE IF x < 0 /\ y < (-LIM) - x THEN NaN
    ELSE x + y

Sub(x, y) == Add(x, Neg(y))

\* |x| * |y| / ONE for 0 <= x, y <= LIM, rounded to nearest
MulAbs(x, y) ==
    LET x1 == x \div 1000
        x0 == x % 1000
        y1 == y \div 1000
        y0 == y % 1000
    IN  IF x1 > 0 /\ y1 > LIM \div x1 THEN NaN
        ELSE LET b == x1 * y0
                 c == x0 * y1
                 d == x0 * y0
                 r == x1 * y1 + b \div 1000 + c \div 1000
                      + ((b % 1000) + (c % 1000) + d \div 1000 + 500) \div 1000
             IN  IF r > LIM THEN NaN ELSE r

Mul(x, y) ==
    IF ~Fin(x) \/ ~Fin(y) THEN NaN
    ELSE LET r == MulAbs(Abs(x), Abs(y))
         IN  IF ~Fin(r) THEN NaN
             ELSE IF (x < 0) = (y < 0) THEN r ELSE -r

\* the first n decimal digits of r / b, for 0 <= r < b <= 2 * 10^8
RECURSIVE DivDigits(_, _, _)
DivDigits(r, b, n) ==
    IF n = 0 THEN 0
    ELSE LET r10 == r * 10
         IN  (r10 \div b) * (10 ^ (n - 1)) + DivDigits(r10 % b, b, n - 1)

DivAbs(a, b) ==
    LET q == a \div b
    IN  IF q > LIM \div ONE THEN NaN
        ELSE LET r == q * ONE + DivDigits(a % b, b, 6)
             IN  IF r > LIM THEN NaN ELSE r

\* x / y; a zero divisor gives a non-finite result
Div(x, y) ==
    IF ~Fin(x) \/ ~Fin(y) \/ y = 0 THEN NaN
    ELSE LET big == Abs(y) > 200 * ONE
             a == IF big THEN Abs(x) \div 10 ELSE Abs(x)
             b == IF big THEN Abs(y) \div 10 ELSE Abs(y)
             r == DivAbs(a, b)
         IN  IF ~Fin(r) THEN NaN
             ELSE IF (x < 0) = (y < 0) THEN r ELSE -r

RECURSIVE Pow(_, _)
Pow(g, k) == IF k = 0 THEN ONE ELSE Mul(Pow(g, k - 1), g)

\* the largest g in [lo, hi) with g^k <= x, by bisection
RECURSIVE RootIter(_, _, _, _)
RootIter(lo, hi, x, k) ==
    IF hi - lo <= 1 THEN lo
    ELSE LET mid == (lo + hi) \div 2
             v == Pow(mid, k)
         IN  IF Fin(v) /\ v <= x THEN RootIter(mid, hi, x, k)
             ELSE RootIter(lo, mid, x, k)

\* x ** (1/k) for 0 <= x <= LIM and k in {2, 5}
Root(x, k) == RootIter(0, IF k = 2 THEN 50 * ONE ELSE 5 * ONE, x, k)

---------------------------------------------------------------------------
(* PARAMETERS *)

recognition(t, val) == val

alpha_R(t, val) == val

alpha_T(t, val) == val

beta(t, val) == val

---------------------------------------------------------------------------
(* ODEs *)

\* a per-call draw in place of the module constant: a call's result then
\* depends on how many calls were made before it
dpay_draw(t, z, params) ==
    LET r == recognition(t, params[1])
    IN  Add(Mul(inflation + 10000 * Len(calls), z[1]), Mul(Mul(r, z[2]), z[1]))

\* the recognition term subtracted instead of added
dpay_minus(t, z, params) ==
    LET r == recognition(t, params[1])
    IN  Sub(Mul(inflation, z[1]), Mul(Mul(r, z[2]), z[1]))

dpay(t, z, params) ==
    LET r == recognition(t, params[1])
    IN  Add(Mul(inflation, z[1]), Mul(Mul(r, z[2]), z[1]))

\* the logistic factor written S*(1 + S)
dstatus_plus(t, z, params) ==
    LET S == z[2]
        R == z[3]
        a_R == alpha_R(t, params[2])
        a_T == alpha_T(t, params[3])
    IN  Mul(Mul(Add(Mul(a_R, R), Mul(a_T, Sub(ONE, R))), S), Add(ONE, S))

dstatus(t, z, params) ==
    LET S == z[2]
        R == z[3]
        a_R == alpha_R(t, params[2])
        a_T == alpha_T(t, params[3])
    IN  Mul(Mul(Add(Mul(a_R, R), Mul(a_T, Sub(ONE, R))), S), Sub(ONE, S))

\* research decaying instead of growing
dresearch_decay(t, z, params) ==
    LET R == z[3]
        b == beta(t, params[4])
    IN  Neg(Mul(Mul(b, Sub(ONE, R)), R))

dresearch(t, z, params) ==
    LET R == z[3]
        b == beta(t, params[4])
    IN  Mul(Mul(b, Sub(ONE, R)), R)

\* the status and research rates returned in each other's place
career_evolution_swapped(t, z, params) ==
    LET dPay == dpay(t, z, params)
        dStatus == dstatus(t, z, params)
        dResearch == dresearch(t, z, params)
    IN  <<dPay, dResearch, dStatus>>

career_evolution(t, z, params) ==
    LET dPay == dpay(t, z, params)
        dStatus == dstatus(t, z, params)
        dResearch == dresearch(t, z, params)
    IN  <<dPay, dStatus, dResearch>>

---------------------------------------------------------------------------
(* The pay-ceiling variant of dpay (a revision of this file that is not    *)
(* in the source tree): the rate of dpay scaled by the saturation factor   *)
(* (Pay_ceiling - Pay) / Pay_ceiling.                                      *)

\* the saturation factor left out
dpay_ceiling_unsaturated(t, z, params) == dpay(t, z, params)

dpay_ceiling(t, z, params) ==
    Mul(dpay(t, z, params), Div(Sub(ceiling, z[1]), ceiling))

career_evolution_ceiling(t, z, params) ==
    <<dpay_ceiling(t, z, params), dstatus(t, z, params), dresearch(t, z, params)>>

\* the vector field handed to solve_ivp
fun(t, z, params) ==
    IF ceiling = 0 THEN career_evolution(t, z, params)
    ELSE career_evolution_ceiling(t, z, params)

---------------------------------------------------------------------------
(* solve_ivp(fun, [t[0], t[-1]], z0, t_eval=t, method='RK45', args=...)    *)
(* with scipy's defaults: rtol = 1e-3, atol = 1e-6, first_step = None,     *)
(* max_step = inf.  The Dormand-Prince tableau, rounded to six digits.     *)
(* atol is one unit of the grid for every component (for Pay, 0.001        *)
(* dollars).  On six digits the error estimate of a small step is only a   *)
(* few units, so the step sizes chosen differ by some percent from the     *)
(* ones double precision gives; the number of steps and the shape of the   *)
(* trajectory are the same.                                                *)

RTOL == 1000
ATOL == 1
SAFETY == 900000
MIN_FACTOR == 200000
MAX_FACTOR == 10 * ONE
NEval == 1000

RK_C == <<0, 200000, 300000, 800000, 888889, 1000000>>

RK_A == << <<200000, 0, 0, 0, 0>>,
           <<75000, 225000, 0, 0, 0>>,
           <<977778, -3733333, 3555556, 0, 0>>,
           <<2952599, -11595793, 9822893, -290809, 0>>,
           <<2846275, -10757576, 8906423, 278409, -273531>> >>

RK_B == <<91146, 0, 449236, 651042, -322376, 130952>>

RK_E == <<-1233, 0, 4253, -36979, 50864, -41905, 25000>>

RK_P == << <<1000000, -2853580, 3071743, -1127018>>,
           <<0, 0, 0, 0>>,
           <<0, 4023133, -6249322, 2675424>>,
           <<0, -3732402, 10068971, -5685527>>,
           <<0, 2554804, -6399112, 3521932>>,
           <<0, -1374424, 3272658, -1767281>>,
           <<0, 1382469, -3764938, 2382469>> >>

\* t = np.linspace(0, t_end, NEval): the i-th point, i in 1..NEval
TEval(i, tend) ==
    LET q == tend \div (NEval - 1)
        r == tend % (NEval - 1)
    IN  IF i = NEval THEN tend
        ELSE (i - 1) * q + ((i - 1) * r) \div (NEval - 1)

\* np.searchsorted(t_eval, t, side='right')
SearchRight(t, tend) == Cardinality({i \in 1..NEval : TEval(i, tend) <= t})

RECURSIVE SumTo(_, _)
SumTo(v, n) == IF n = 0 THEN 0 ELSE Add(SumTo(v, n - 1), v[n])

\* common.norm: the root mean square of a vector
Norm(v) ==
    IF \E i \in 1..3 : ~Fin(v[i]) THEN NaN
    ELSE LET m == Max2(Abs(v[1]), Max2(Abs(v[2]), Abs(v[3])))
         IN  IF m = 0 THEN 0
             ELSE LET u == [i \in 1..3 |-> Div(v[i], m)]
                      sq == [i \in 1..3 |-> Mul(u[i], u[i])]
                  IN  Mul(m, Root(SumTo(sq, 3) \div 3, 2))

\* atol + np.maximum(np.abs(y), np.abs(y_new)) * rtol
Scale(y, y_new) ==
    [i \in 1..3 |-> Add(ATOL, Mul(Max2(Abs(y[i]), Abs(y_new[i])), RTOL))]

\* np.dot(K[:n].T, a[:n]), component i
Dot(K, a, i, n) == SumTo([j \in 1..n |-> Mul(a[j], K[j][i])], n)

\* common.select_initial_step
select_initial_step(t0, y0, t_bound, f0, params) ==
    LET interval_length == Abs(t_bound - t0)
        scale == Scale(y0, y0)
        d0 == Norm([i \in 1..3 |-> Div(y0[i], scale[i])])
        d1 == Norm([i \in 1..3 |-> Div(f0[i], scale[i])])
        h0a == IF d0 < 10 \/ d1 < 10 THEN 1 ELSE Div(Mul(10000, d0), d1)
        h0 == Min2(h0a, interval_length)
        y1 == [i \in 1..3 |-> Add(y0[i], Mul(h0, f0[i]))]
        f1 == fun(t0 + h0, y1, params)
        d2 == Div(Norm([i \in 1..3 |-> Div(Sub(f1[i], f0[i]), scale[i])]), h0)
        h1 == IF d1 <= 0 /\ d2 <= 0 THEN Max2(1, Mul(h0, 1000))
              ELSE Root(Div(10000, Max2(d1, d2)), 5)
    IN  Min2(Mul(100 * ONE, h0), Min2(h1, interval_length))

\* RK45.__init__ and the start of solve_ivp's loop
NewSolver(y0, tend, params) ==
    LET f0 == fun(0, y0, params)
    IN  [t |-> 0, y |-> y0, f |-> f0, t_bound |-> tend,
         h_abs |-> select_initial_step(0, y0, tend, f0, params),
         step_rejected |-> FALSE, h |-> 0, t_new |-> 0, K |-> <<>>,
         status |-> "running", ys |-> <<>>]

NoSolver ==
    [t |-> 0, y |-> <<0, 0, 0>>, f |-> <<0, 0, 0>>, t_bound |-> 0,
     h_abs |-> 0, step_rejected |-> FALSE, h |-> 0, t_new |-> 0, K |-> <<>>,
     status |-> "none", ys |-> <<>>]

\* min_step = 10 * |nextafter(t, inf) - t|: ten grid spacings
MinStep == 10

\* The head of the loop of RK45._step_impl: the first pass clamps h_abs to
\* min_step, a pass after a rejection fails when h_abs fell below it.
BeginAttempt(s) ==
    LET h_abs == IF ~s.step_rejected /\ s.h_abs < MinStep THEN MinStep
                 ELSE s.h_abs
    IN  IF h_abs < MinStep
        THEN [s EXCEPT !.status = "failed", !.K = <<>>]
        ELSE LET t_new == IF s.t + h_abs - s.t_bound > 0 THEN s.t_bound
                          ELSE s.t + h_abs
             IN  [s EXCEPT !.h = t_new - s.t, !.h_abs = t_new - s.t,
                           !.t_new = t_new, !.K = <<s.f>>]

\* rk_step, one pass of its loop: K[n] = fun(t + c*h, y + dy)
RkStage(s, params) ==
    LET n == Len(s.K)
        dy == [i \in 1..3 |-> Mul(Dot(s.K, RK_A[n], i, n), s.h)]
        y1 == [i \in 1..3 |-> Add(s.y[i], dy[i])]
    IN  [s EXCEPT !.K = Append(s.K, fun(s.t + Mul(RK_C[n + 1], s.h), y1, params))]

\* RkDenseOutput for the accepted step: the values at the points of t_eval
\* in (t_old, t_new] (and t_eval[0] = t0 on the first step)
DenseOutput(s, K, n_new) ==
    LET Q == [i \in 1..3 |-> [c \in 1..4 |->
                 SumTo([j \in 1..7 |-> Mul(K[j][i], RK_P[j][c])], 7)]]
        At(te) ==
            LET x == Div(te - s.t, s.h)
                x2 == Mul(x, x)
                x3 == Mul(x2, x)
                x4 == Mul(x3, x)
                p == <<x, x2, x3, x4>>
            IN  [i \in 1..3 |->
                    Add(Mul(s.h, SumTo([c \in 1..4 |-> Mul(Q[i][c], p[c])], 4)),
                        s.y[i])]
        n_old == Len(s.ys)
    IN  s.ys \o [k \in 1..(n_new - n_old) |-> At(TEval(n_old + k, s.t_bound))]

\* The end of rk_step and the error control of RK45._step_impl, then, for an
\* accepted step, solve_ivp's collection of the t_eval points it covers.
EndAttempt(s, params) ==
    LET y_new == [i \in 1..3 |-> Add(s.y[i], Mul(s.h, Dot(s.K, RK_B, i, 6)))]
        f_new == fun(s.t + s.h, y_new, params)
        K == Append(s.K, f_new)
        scale == Scale(s.y, y_new)
        err == [i \in 1..3 |-> Mul(Dot(K, RK_E, i, 7), s.h)]
        error_norm == Norm([i \in 1..3 |-> Div(err[i], scale[i])])
        pw == Div(SAFETY, Root(error_norm, 5))
    IN  IF Fin(error_norm) /\ error_norm < ONE
        THEN LET f1 == IF error_norm = 0 THEN MAX_FACTOR
                       ELSE Min2(MAX_FACTOR, pw)
                 factor == IF s.step_rejected THEN Min2(ONE, f1) ELSE f1
                 done == s.t_new - s.t_bound >= 0
             IN  [s EXCEPT !.t = s.t_new, !.y = y_new, !.f = f_new,
                           !.h_abs = Mul(s.h_abs, factor),
                           !.step_rejected = FALSE, !.K = <<>>,
                           !.status = IF done THEN "finished" ELSE "running",
                           !.ys = DenseOutput(s, K, SearchRight(s.t_new, s.t_bound))]
        ELSE LET factor == IF Fin(error_norm) THEN Max2(MIN_FACTOR, pw)
                           ELSE MIN_FACTOR
             IN  [s EXCEPT !.h_abs = Mul(s.h_abs, factor),
                           !.step_rejected = TRUE, !.K = <<>>]

\* one step of the solver, whatever its position
SolverStep(s, params) ==
    IF s.K = <<>> THEN BeginAttempt(s)
    ELSE IF Len(s.K) < 6 THEN RkStage(s, params)
    ELSE EndAttempt(s, params)

\* solve_ivp run to its return
RECURSIVE RunSolver(_, _)
RunSolver(s, params) ==
    IF s.status # "running" THEN s ELSE RunSolver(SolverStep(s, params), params)

---------------------------------------------------------------------------
(* CONSTANTS of the module and of __main__ *)

INFLATION == 20000
RECOGNITION_VAL == 10000
ALPHA_R_VAL == 50000
ALPHA_T_VAL == 10000
BETA_VAL == 500000
female_reduction_factor == 515460
T_CAREER == 40 * ONE
PAY_CEILING == 500000 * 1000

\* bounds of the model
NPert == 5
MaxSpans == 3
MaxCalls == 3

male_params == <<RECOGNITION_VAL, ALPHA_R_VAL, ALPHA_T_VAL, BETA_VAL>>

female_params ==
    <<Mul(RECOGNITION_VAL, female_reduction_factor), ALPHA_R_VAL, ALPHA_T_VAL,
      BETA_VAL>>

z0_career == <<78856 * 1000, 500000, 500000>>

z0_sensitivity == <<50000 * 1000, 500000, 500000>>

base_param_set == <<30000, 100000, 50000, 500000>>

\* perterbations = np.linspace(0.1, 2, NPert), the k-th point, k in 1..NPert
perterbations(k) ==
    IF k = NPert THEN 2 * ONE
    ELSE 100000 + ((k - 1) * 1900000) \div (NPert - 1)

\* param_sets: for each coefficient i, for each p, the base set with
\* coefficient i multiplied by p
param_sets ==
    [n \in 1..(4 * NPert) |->
        LET i == ((n - 1) \div NPert) + 1
            k == ((n - 1) % NPert) + 1
        IN  [base_param_set EXCEPT ![i] = Mul(base_param_set[i], perterbations(k))]]

\* a Status/Research outside [0,1] in z0, which __main__ does not validate
z0_invalid == <<78856 * 1000, 500000, -100000>>

Sections == {"career", "standard", "sensitivity", "ceiling", "invalid_state"}

\* z0 and the parameter sets solved, in order, by each edition of __main__:
\*   career         the script as it stands (male, then female)
\*   standard       the standard career simulation with the initial state
\*                  and parameter set of the sensitivity section
\*   sensitivity    the sensitivity analysis section
\*   ceiling        the standard simulation under the pay-ceiling variant
\*   invalid_state  the script as it stands, started from z0_invalid
Z0Of(sec) ==
    CASE sec = "career" -> z0_career
      [] sec = "invalid_state" -> z0_invalid
      [] OTHER -> z0_sensitivity

RunsOf(sec) ==
    CASE sec \in {"career", "invalid_state"} -> <<male_params, female_params>>
      [] sec = "sensitivity" -> param_sets
      [] OTHER -> <<base_param_set>>

---------------------------------------------------------------------------
(* __main__ *)

Init ==
    /\ inflation = INFLATION
    /\ pc = "main"
    /\ section \in Sections
    /\ z0 = Z0Of(section)
    /\ t_end \in IF section = "ceiling"
                 THEN {k * T_CAREER : k \in 1..MaxSpans} ELSE {T_CAREER}
    /\ ceiling = IF section = "ceiling" THEN PAY_CEILING ELSE 0
    /\ queue = RunsOf(section)
    /\ args = <<>>
    /\ solver = NoSolver
    /\ results = <<>>
    /\ final_pays = <<>>
    /\ calls = <<>>

\* solution = solve_ivp(career_evolution, [t[0], t[-1]], z0, t_eval=t,
\*                      method='RK45', args=(params,)): the call
Solve ==
    /\ pc = "main"
    /\ queue # <<>>
    /\ args' = Head(queue)
    /\ queue' = Tail(queue)
    /\ solver' = NewSolver(z0, t_end, Head(queue))
    /\ pc' = "solve"
    /\ UNCHANGED <<inflation, z0, t_end, ceiling, section, results, final_pays, calls>>

Attempt ==
    /\ pc = "solve"
    /\ solver.status = "running"
    /\ solver.K = <<>>
    /\ solver' = BeginAttempt(solver)
    /\ UNCHANGED <<inflation, pc, z0, t_end, ceiling, section, queue, args,
                   results, final_pays, calls>>

Stage ==
    /\ pc = "solve"
    /\ solver.status = "running"
    /\ Len(solver.K) \in 1..5
    /\ solver' = RkStage(solver, args)
    /\ UNCHANGED <<inflation, pc, z0, t_end, ceiling, section, queue, args,
                   results, final_pays, calls>>

Control ==
    /\ pc = "solve"
    /\ solver.status = "running"
    /\ Len(solver.K) = 6
    /\ solver' = EndAttempt(solver, args)
    /\ UNCHANGED <<inflation, pc, z0, t_end, ceiling, section, queue, args,
                   results, final_pays, calls>>

\* pay = solution.y[0]; status = solution.y[1]; research = solution.y[2]
Solution(s) ==
    [pay |-> [k \in 1..Len(s.ys) |-> s.ys[k][1]],
     status |-> [k \in 1..Len(s.ys) |-> s.ys[k][2]],
     research |-> [k \in 1..Len(s.ys) |-> s.ys[k][3]]]

\* solve_ivp has returned: the results are extracted, whatever the
\* solution's status; the sensitivity section keeps solution.y[0][-1]
ExtractWritingBack ==
    /\ pc = "solve"
    /\ solver.status \in {"finished", "failed"}
    /\ IF section = "sensitivity"
       THEN /\ final_pays' = Append(final_pays, solver.ys[Len(solver.ys)][1])
            /\ UNCHANGED results
       ELSE /\ results' = Append(results, Solution(solver))
            /\ UNCHANGED final_pays
    /\ pc' = "main"
    /\ z0' = solver.y
    /\ UNCHANGED <<inflation, t_end, ceiling, section, queue, args, solver, calls>>

Extract ==
    /\ pc = "solve"
    /\ solver.status \in {"finished", "failed"}
    /\ IF section = "sensitivity"
       THEN /\ final_pays' = Append(final_pays, solver.ys[Len(solver.ys)][1])
            /\ UNCHANGED results
       ELSE /\ results' = Append(results, Solution(solver))
            /\ UNCHANGED final_pays
    /\ pc' = "main"
    /\ UNCHANGED <<inflation, z0, t_end, ceiling, section, queue, args, solver, calls>>

\* every solve is done: the script goes on to its plots
Plot ==
    /\ pc = "main"
    /\ queue = <<>>
    /\ pc' = "plot"
    /\ UNCHANGED <<inflation, z0, t_end, ceiling, section, queue, args, solver,
                   results, final_pays, calls>>

Next == Solve \/ Attempt \/ Stage \/ Control \/ Extract \/ Plot

Spec == Init /\ [][Next]_vars

---------------------------------------------------------------------------
(* Function-level runs: one input (t, z, params) is drawn, and the four    *)
(* functions are called on it in any order, any number of times; every     *)
(* call is logged with its result.  Here t_end holds t, z0 holds z and     *)
(* args holds params.                                                      *)

FnTimes == {0, 20 * ONE}

FnStates ==
    {<<p, st, r>> : p \in {0, 78856 * 1000},
                    st \in {0, 500000, ONE},
                    r \in {0, 250000, ONE}}

FnParams == {male_params, base_param_set}

FnInit ==
    /\ inflation = INFLATION
    /\ pc = "call"
    /\ section = "functions"
    /\ z0 \in FnStates
    /\ t_end \in FnTimes
    /\ args \in FnParams
    /\ ceiling = 0
    /\ queue = <<>>
    /\ solver = NoSolver
    /\ results = <<>>
    /\ final_pays = <<>>
    /\ calls = <<>>

Logged(name, out) ==
    /\ pc = "call"
    /\ Len(calls) < MaxCalls
    /\ calls' = Append(calls, [fn |-> name, t |-> t_end, z |-> z0,
                               params |-> args, out |-> out])
    /\ UNCHANGED <<inflation, pc, z0, t_end, ceiling, section, queue, args,
                   solver, results, final_pays>>

CallDpay == Logged("dpay", dpay(t_end, z0, args))

CallDstatus == Logged("dstatus", dstatus(t_end, z0, args))

CallDresearch == Logged("dresearch", dresearch(t_end, z0, args))

CallCareerEvolution == Logged("career_evolution", career_evolution(t_end, z0, args))

FnNext == CallDpay \/ CallDstatus \/ CallDresearch \/ CallCareerEvolution

FnSpec == FnInit /\ [][FnNext]_vars

---------------------------------------------------------------------------
(* Properties *)

\* the solution the k-th solve of a section returns when it runs alone from
\* the section's initial state
SolvedAlone(k) ==
    LET params == RunsOf(section)[k]
    IN  RunSolver(NewSolver(Z0Of(section), t_end, params), params)

\* C1: along the trajectory of the standard simulation, (Pay=50000,
\* Status=0.5, Research=0.5) under (0.03, 0.1, 0.05, 0.5) over [0,40], Status
\* and Research are within [0,1] at every point.
C1_StatusResearchInUnitInterval ==
    section = "standard" =>
        \A n \in 1..Len(results) : \A k \in 1..Len(results[n].pay) :
            /\ 0 <= results[n].status[k] /\ results[n].status[k] <= ONE
            /\ 0 <= results[n].research[k] /\ results[n].research[k] <= ONE

\* C2: along the trajectory of the standard simulation Pay is monotonically
\* non-decreasing: each point's Pay is at least the previous point's.
C2_PayNonDecreasing ==
    section = "standard" =>
        \A n \in 1..Len(results) : \A k \in 1..(Len(results[n].pay) - 1) :
            /\ Fin(results[n].pay[k + 1])
            /\ results[n].pay[k + 1] >= results[n].pay[k]

C2_Witness ==
    /\ section = "standard"
    /\ Len(results) = 1
    /\ Len(results[1].pay) = NEval
    /\ results[1].pay[1] = z0[1]
    /\ results[1].pay[NEval] > results[1].pay[1]

\* C3: of two runs from the same initial state on the same time grid whose
\* parameter sets differ only in recognition, the run with the smaller
\* recognition has the smaller or equal Pay at every evaluation time t > 0:
\* female against male in the script, and along the recognition row of the
\* sensitivity analysis at the final time.
C3_PayOrderedByRecognition ==
    /\ (section = "career" /\ Len(results) = 2) =>
           \A k \in 2..NEval : results[2].pay[k] <= results[1].pay[k]
    /\ section = "sensitivity" =>
           \A i, j \in 1..Min2(NPert, Len(final_pays)) :
               i <= j => final_pays[i] <= final_pays[j]

C3_Witness ==
    /\ section = "career"
    /\ Len(results) = 2
    /\ Len(results[1].pay) = NEval
    /\ Len(results[2].pay) = NEval
    /\ results[2].pay[NEval] < results[1].pay[NEval]

\* C4: for Pay >= 0 and Status, Research in [0,1], dstatus returns 0 when
\* Status is 0 or 1, and dresearch returns 0 when Research is 0 or 1.
C4_LogisticFixedPoints ==
    \A i \in 1..Len(calls) :
        LET c == calls[i]
        IN  (c.z[1] >= 0 /\ c.z[2] \in 0..ONE /\ c.z[3] \in 0..ONE) =>
                /\ (c.fn = "dstatus" /\ c.z[2] \in {0, ONE}) => c.out = 0
                /\ (c.fn = "dresearch" /\ c.z[3] \in {0, ONE}) => c.out = 0

C4_Witness ==
    \E i, j \in 1..Len(calls) :
        /\ calls[i].fn = "dstatus" /\ calls[i].z[2] = ONE
        /\ calls[i].z[1] > 0 /\ calls[i].out = 0
        /\ calls[j].fn = "dresearch" /\ calls[j].z[3] = ONE /\ calls[j].out = 0

C8_ComposedInOrder ==
    \A i, j \in 1..Len(calls) :
        (calls[i].fn = "career_evolution" /\ calls[j].fn # "career_evolution") =>
            /\ Len(calls[i].out) = 3
            /\ calls[j].fn = "dpay" => calls[i].out[1] = calls[j].out
            /\ calls[j].fn = "dstatus" => calls[i].out[2] = calls[j].out
            /\ calls[j].fn = "dresearch" => calls[i].out[3] = calls[j].out

C8_Witness ==
    \E i, j, k \in 1..Len(calls) :
        /\ calls[i].fn = "career_evolution"
        /\ calls[j].fn = "dstatus"
        /\ calls[k].fn = "dresearch"
        /\ calls[i].out[2] # calls[i].out[3]

\* C9: two calls of the same function with identical (t, z, params) return
\* identical results, whatever calls were made in between.
C9_SameInputsSameOutput ==
    \A i, j \in 1..Len(calls) :
        (/\ calls[i].fn = calls[j].fn
         /\ calls[i].t = calls[j].t
         /\ calls[i].z = calls[j].z
         /\ calls[i].params = calls[j].params) => calls[i].out = calls[j].out

C9_Witness ==
    /\ Len(calls) = 3
    /\ calls[1].fn = "dpay"
    /\ calls[2].fn = "career_evolution"
    /\ calls[3].fn = "dpay"
    /\ calls[1].z[1] > 0
    /\ calls[1].out > 0

\* C10: a run leaves z0, the time grid and the parameter sets as they were,
\* so every run starts from the same initial state, and each run's result is
\* the one it gives when it runs alone.
C10_RunsIndependent ==
    section \in Sections =>
        /\ z0 = Z0Of(section)
        /\ queue = SubSeq(RunsOf(section), Len(RunsOf(section)) - Len(queue) + 1,
                          Len(RunsOf(section)))
        /\ (pc = "solve" /\ solver.t = 0) => solver.y = Z0Of(section)
        /\ (pc = "plot" /\ section = "sensitivity") =>
               \A k \in 1..Len(final_pays) :
                   LET ys == SolvedAlone(k).ys
                   IN  final_pays[k] = ys[Len(ys)][1]
        /\ (pc = "plot" /\ section # "sensitivity") =>
               \A k \in 1..Len(results) : results[k] = Solution(SolvedAlone(k))

C10_Witness ==
    /\ section = "career"
    /\ pc = "plot"
    /\ Len(results) = 2
    /\ solver.y # z0
    /\ results[1].pay[1] = z0[1]
    /\ results[2].pay[1] = z0[1]
    /\ results[1] # results[2]

===========================================================================
